---- MODULE Spec2Model ----
(***************************************************************************)
(* Version resolution engine of resolve-version-number.                    *)
(*                                                                         *)
(* Strings are sequences of one-character strings, so that split, regular  *)
(* expression tests, Number(), parseInt() and template formatting are      *)
(* computed character by character, as the JavaScript does.                *)
(***************************************************************************)
EXTENDS Integers, Sequences, FiniteSets, TLC

VARIABLES
    record,   \* content of the package.json file (the backing record)
    record0,  \* content of the file before the first call
    pc,       \* pc[p]: position of process p in cli.js / resolveVersion
    args,     \* args[p]: input, overrideVersion and entry point of the call
    loc,      \* loc[p]: locals of resolveVersion / calculateBumpVersion
    out,      \* out[p]: how the call ended and what it delivered
    obs,      \* obs[p]: observations of the call (record at start, accesses)
    ncalls,   \* number of calls started so far
    bv0,      \* pure-function harness: the version the chain started from
    bprev,    \* pure-function harness: argument of the last application
    bv,       \* pure-function harness: latest value
    bn        \* pure-function harness: number of applications so far

vars == <<record, record0, pc, args, loc, out, obs, ncalls, bv0, bprev, bv, bn>>

----------------------------------------------------------------------------
(* Bounds *)

MaxNumLen == 2     \* digits in a generated numeric component
MaxBumps == 3      \* applications of bump in a chain
MaxTurns == 3      \* resolve calls per behaviour when calls are compared
MaxCalls == 2      \* resolve calls per behaviour

----------------------------------------------------------------------------
(* Characters and strings *)

DigitChars == <<"0", "1", "2", "3", "4", "5", "6", "7", "8", "9">>

LowerChars == <<"a", "b", "c", "d", "e", "f", "g", "h", "i", "j", "k", "l", "m",
                "n", "o", "p", "q", "r", "s", "t", "u", "v", "w", "x", "y", "z">>

UpperChars == <<"A", "B", "C", "D", "E", "F", "G", "H", "I", "J", "K", "L", "M",
                "N", "O", "P", "Q", "R", "S", "T", "U", "V", "W", "X", "Y", "Z">>

Range(s) == {s[i] : i \in 1..Len(s)}

IsDigit(c) == c \in Range(DigitChars)

\* [a-zA-Z0-9.-]
IsPrereleaseChar(c) ==
    c \in Range(DigitChars) \cup Range(LowerChars) \cup Range(UpperChars) \cup {".", "-"}

DigitVal(c) == (CHOOSE i \in 1..10 : DigitChars[i] = c) - 1

\* String.prototype.toLowerCase on one character
LowerChar(c) ==
    IF c \in Range(UpperChars)
    THEN LowerChars[CHOOSE i \in 1..26 : UpperChars[i] = c]
    ELSE c

\* a plausible slip: the input is compared as typed
toLowerCase_asTyped(s) == s

\* input.toLowerCase()
toLowerCase(s) == [i \in 1..Len(s) |-> LowerChar(s[i])]

\* null / undefined: a value no string equals
Null == <<"<null>">>

\* JavaScript truthiness of a string-or-null value
Truthy(s) == s # Null /\ s # <<>>

AllDigits(s) == \A i \in 1..Len(s) : IsDigit(s[i])

\* index of the first occurrence of character c in s, 0 when there is none
IndexOf(s, c) ==
    IF \E i \in 1..Len(s) : s[i] = c
    THEN CHOOSE i \in 1..Len(s) : s[i] = c /\ \A j \in 1..(i - 1) : s[j] # c
    ELSE 0

\* String.prototype.split(sep) for a one-character separator
RECURSIVE Split(_, _)
Split(s, sep) ==
    LET i == IndexOf(s, sep)
    IN  IF i = 0 THEN <<s>>
        ELSE <<SubSeq(s, 1, i - 1)>> \o Split(SubSeq(s, i + 1, Len(s)), sep)

\* value of a non-empty string of decimal digits
RECURSIVE DigitsValue(_)
DigitsValue(s) ==
    IF s = <<>> THEN 0
    ELSE 10 * DigitsValue(SubSeq(s, 1, Len(s) - 1)) + DigitVal(s[Len(s)])

\* decimal text of a natural number
RECURSIVE NatToStr(_)
NatToStr(n) ==
    IF n < 10 THEN <<DigitChars[n + 1]>>
    ELSE NatToStr(n \div 10) \o <<DigitChars[(n % 10) + 1]>>

\* JavaScript numbers that occur here: naturals, NaN and undefined
NaN == -1
Undefined == -2

\* Number(s) for the strings of the model: "" is 0, decimal digits are their
\* value, anything else is NaN
Number(s) ==
    IF s = <<>> THEN 0
    ELSE IF AllDigits(s) THEN DigitsValue(s)
    ELSE NaN

\* `${x}` for a number, NaN or undefined
Fmt(x) ==
    IF x = NaN THEN <<"N", "a", "N">>
    ELSE IF x = Undefined THEN <<"u", "n", "d", "e", "f", "i", "n", "e", "d">>
    ELSE NatToStr(x)

Dot == <<".">>
Hyphen == <<"-">>
RcDot == <<"r", "c", ".">>

----------------------------------------------------------------------------
(* Pure functions of resolve-version-number.js *)

\* element i of a destructured array: undefined past its end
Elem(nums, i) == IF i <= Len(nums) THEN nums[i] ELSE Undefined

\* parts[0].split('.').map(Number)
CoreNumbers(core) ==
    LET pieces == Split(core, ".")
    IN  [i \in 1..Len(pieces) |-> Number(pieces[i])]

\* `${major}.${minor}.${patch}`
FmtCore(nums) ==
    Fmt(Elem(nums, 1)) \o Dot \o Fmt(Elem(nums, 2)) \o Dot \o Fmt(Elem(nums, 3))

\* prerelease.match(/^rc\.(\d+)$/) is not null
RcMatch(prerelease) ==
    /\ Len(prerelease) >= 4
    /\ SubSeq(prerelease, 1, 3) = RcDot
    /\ AllDigits(SubSeq(prerelease, 4, Len(prerelease)))

\* parseInt(rcMatch[1], 10)
RcNumber(prerelease) == DigitsValue(SubSeq(prerelease, 4, Len(prerelease)))

\* a plausible slip: the rc number is kept instead of incremented
bumpPatchVersion_keepRc(version) ==
    LET parts == Split(version, "-")
        nums == CoreNumbers(parts[1])
    IN  IF Len(parts) > 1 /\ RcMatch(parts[2])
        THEN FmtCore(nums) \o Hyphen \o RcDot \o NatToStr(RcNumber(parts[2]))
        ELSE FmtCore(nums) \o Hyphen \o RcDot \o <<"1">>

\* a plausible slip: rcMatch[1] + 1 without parseInt concatenates strings
bumpPatchVersion_concat(version) ==
    LET parts == Split(version, "-")
        nums == CoreNumbers(parts[1])
    IN  IF Len(parts) > 1 /\ RcMatch(parts[2])
        THEN FmtCore(nums) \o Hyphen \o RcDot \o SubSeq(parts[2], 4, Len(parts[2])) \o <<"1">>
        ELSE FmtCore(nums) \o Hyphen \o RcDot \o <<"1">>

\* a plausible slip: the patch number is incremented as well, as the name of
\* the function suggests
bumpPatchVersion_patchPlusOne(version) ==
    LET parts == Split(version, "-")
        nums == CoreNumbers(parts[1])
        next == <<Elem(nums, 1), Elem(nums, 2), Elem(nums, 3) + 1>>
    IN  IF Len(parts) > 1 /\ RcMatch(parts[2])
        THEN FmtCore(next) \o Hyphen \o RcDot \o NatToStr(RcNumber(parts[2]) + 1)
        ELSE FmtCore(next) \o Hyphen \o RcDot \o <<"1">>

bumpPatchVersion(version) ==
    LET parts == Split(version, "-")
        nums == CoreNumbers(parts[1])
    IN  IF Len(parts) > 1
        THEN IF RcMatch(parts[2])
             THEN FmtCore(nums) \o Hyphen \o RcDot \o NatToStr(RcNumber(parts[2]) + 1)
             ELSE FmtCore(nums) \o Hyphen \o RcDot \o <<"1">>
        ELSE FmtCore(nums) \o Hyphen \o RcDot \o <<"1">>

\* a plausible slip: the core is rebuilt from its numbers, as bumpPatchVersion
\* does, instead of being returned as written
stripPrerelease_canon(version) == FmtCore(CoreNumbers(Split(version, "-")[1]))

\* a plausible slip: only the last hyphen-separated part is dropped
stripPrerelease_dropLast(version) ==
    LET hyphens == {i \in 1..Len(version) : version[i] = "-"}
        last == CHOOSE i \in hyphens : \A j \in hyphens : j <= i
    IN  IF hyphens = {} THEN version ELSE SubSeq(version, 1, last - 1)

\* version.split('-')[0]
stripPrerelease(version) == Split(version, "-")[1]

\* /^[0-9]+\.[0-9]+\.[0-9]+(-[a-zA-Z0-9.-]+)?$/.test(version)
validateSemver(version) ==
    /\ version # Null
    /\ LET h == IndexOf(version, "-")
           core == IF h = 0 THEN version ELSE SubSeq(version, 1, h - 1)
           pre == IF h = 0 THEN <<>> ELSE SubSeq(version, h + 1, Len(version))
           pieces == Split(core, ".")
       IN  /\ Len(pieces) = 3
           /\ \A i \in 1..3 : pieces[i] # <<>> /\ AllDigits(pieces[i])
           /\ h # 0 => (pre # <<>> /\ \A i \in 1..Len(pre) : IsPrereleaseChar(pre[i]))

----------------------------------------------------------------------------
(* Versions the pure functions are applied to: every one matches the       *)
(* grammar of validateSemver                                               *)

GenDigits == {"0", "9"}

\* digit strings of length 1..MaxNumLen, leading zeros included
NumStrs == UNION {[1..n -> GenDigits] : n \in 1..MaxNumLen}

ShortNums == {<<"0">>, <<"9">>, <<"0", "1">>}

OtherPrereleases ==
    { <<"a">>,                               \* alpha
      <<"a", ".", "9">>,                     \* beta.5
      <<"r", "c">>,
      <<"r", "c", ".">>,
      <<"r", "c", "9">>,
      <<"r", "c", ".", "a">>,
      <<"r", "c", ".", "9", "a">>,
      <<"r", "c", ".", "9", ".", "9">>,
      <<"R", "C", ".", "9">>,
      <<"a", "-", "r", "c", ".", "9">>,
      <<"-">> }

Prereleases ==
    {RcDot \o n : n \in NumStrs}
        \cup {RcDot \o n \o <<"-", "a">> : n \in NumStrs}   \* rc.<N>-foo
        \cup OtherPrereleases

CoreTriples == {a \o Dot \o b \o Dot \o c : a \in NumStrs, b \in ShortNums, c \in ShortNums}

BumpInputs == CoreTriples \cup {c \o Hyphen \o p : c \in CoreTriples, p \in Prereleases}

----------------------------------------------------------------------------
(* Reading a version as the specification's Version value, independently   *)
(* of the functions above                                                  *)

HasPrerelease(v) == IndexOf(v, "-") # 0

\* the text before the first hyphen
CoreText(v) == IF HasPrerelease(v) THEN SubSeq(v, 1, IndexOf(v, "-") - 1) ELSE v

\* the whole text after the first hyphen
PrereleaseOf(v) == SubSeq(v, IndexOf(v, "-") + 1, Len(v))

\* a digit string without its leading zeros (one digit is always left)
RECURSIVE StripZeros(_)
StripZeros(s) == IF Len(s) > 1 /\ s[1] = "0" THEN StripZeros(Tail(s)) ELSE s

\* the decimal numeral that follows the numeral s
RECURSIVE SuccDigits(_)
SuccDigits(s) ==
    IF s = <<>> THEN <<"1">>
    ELSE IF s[Len(s)] = "9" THEN SuccDigits(SubSeq(s, 1, Len(s) - 1)) \o <<"0">>
    ELSE SubSeq(s, 1, Len(s) - 1) \o <<DigitChars[DigitVal(s[Len(s)]) + 2]>>

RECURSIVE SuccDigitsN(_, _)
SuccDigitsN(s, n) == IF n = 0 THEN s ELSE SuccDigitsN(SuccDigits(s), n - 1)

\* major, minor and patch as canonical numerals
CoreTriple(v) ==
    LET pieces == Split(CoreText(v), ".")
    IN  [i \in 1..Len(pieces) |-> StripZeros(pieces[i])]

\* the core triple written canonically
CanonCore(v) ==
    LET t == CoreTriple(v) IN t[1] \o Dot \o t[2] \o Dot \o t[3]

\* the prerelease is exactly rc.<N>
ExactlyRcN(p) ==
    /\ Len(p) >= 4
    /\ p[1] = "r" /\ p[2] = "c" /\ p[3] = "."
    /\ \A i \in 4..Len(p) : IsDigit(p[i])

RcDigits(p) == SubSeq(p, 4, Len(p))

----------------------------------------------------------------------------
(* Harness for the pure functions: a chain bv0, bump(bv0), bump(bump(bv0)) *)

Procs == {1, 2}

\* placeholder where no file content has been captured yet
NoRecord ==
    [exists |-> FALSE, json |-> FALSE, version |-> Null, other |-> "none", fmt |-> "unset"]

NoCall == [input |-> Null, overrideVersion |-> Null, entry |-> "none"]
NoLoc == [currentVersion |-> Null, originalVersion |-> Null,
          originalPkgContent |-> NoRecord, newVersion |-> Null]
NoResult == [original |-> Null, version |-> Null]
NoOut == [status |-> "none", err |-> "none", result |-> NoResult]
\* what a call has done so far: start is the file when the call began, seen
\* the file the calculator started from, left the file the calculator left,
\* restoreFailed whether a writeFileSync of the snapshot has thrown
NoObs == [start |-> NoRecord, resolve |-> FALSE, read |-> FALSE, wrote |-> FALSE,
          calc |-> "none", seen |-> NoRecord, left |-> NoRecord, restored |-> FALSE,
          restoreFailed |-> FALSE]

SystemIdle ==
    /\ record = NoRecord
    /\ record0 = NoRecord
    /\ pc = [p \in Procs |-> "off"]
    /\ args = [p \in Procs |-> NoCall]
    /\ loc = [p \in Procs |-> NoLoc]
    /\ out = [p \in Procs |-> NoOut]
    /\ obs = [p \in Procs |-> NoObs]
    /\ ncalls = 0

sysvars == <<record, record0, pc, args, loc, out, obs, ncalls>>
purevars == <<bv0, bprev, bv, bn>>

InitBump ==
    /\ SystemIdle
    /\ bv0 \in BumpInputs
    /\ bprev = bv0
    /\ bv = bv0
    /\ bn = 0

BumpStep ==
    /\ bn < MaxBumps
    /\ bprev' = bv
    /\ bv' = bumpPatchVersion(bv)
    /\ bn' = bn + 1
    /\ UNCHANGED <<bv0, sysvars>>

NextBump == BumpStep

SpecBump == InitBump /\ [][NextBump]_vars

\* a chain bv0, final(bv0), final(final(bv0)), ...
FinalStep ==
    /\ bn < MaxBumps
    /\ bprev' = bv
    /\ bv' = stripPrerelease(bv)
    /\ bn' = bn + 1
    /\ UNCHANGED <<bv0, sysvars>>

NextFinal == FinalStep

SpecFinal == InitBump /\ [][NextFinal]_vars

\* every generated input is a valid version
BumpInputsValid == validateSemver(bv0)

----------------------------------------------------------------------------
(* The backing record: the package.json file                               *)

\* a readable JSON document; fmt tells the byte layout apart: "raw" is the
\* layout the user wrote, "stringify" what JSON.stringify(pkg, null, 2) + '\n'
\* produces, "npm" what the calculator writes
Pkg(version, fmt) ==
    [exists |-> TRUE, json |-> TRUE, version |-> version, other |-> "fields", fmt |-> fmt]

\* no file at the path: readFileSync throws
MissingFile ==
    [exists |-> FALSE, json |-> FALSE, version |-> Null, other |-> "none", fmt |-> "none"]

\* a file that JSON.parse rejects
Garbled ==
    [exists |-> TRUE, json |-> FALSE, version |-> Null, other |-> "none", fmt |-> "raw"]

V_1_0_8 == <<"1", ".", "0", ".", "8">>
V_1_2_3_rc_1 == <<"1", ".", "2", ".", "3", "-", "r", "c", ".", "1">>
V_2_5_0 == <<"2", ".", "5", ".", "0">>
V_2_0_0_rc_1 == <<"2", ".", "0", ".", "0", "-", "r", "c", ".", "1">>
V_2_0_0_RC_1 == <<"2", ".", "0", ".", "0", "-", "R", "C", ".", "1">>
V_9_9_9 == <<"9", ".", "9", ".", "9">>
V_1_2 == <<"1", ".", "2">>                      \* not a version: two components
V_invalid == <<"i", "n", "v", "a", "l", "i", "d", "-", "v", "e", "r", "s", "i", "o", "n">>

S_major == <<"m", "a", "j", "o", "r">>
S_minor == <<"m", "i", "n", "o", "r">>
S_patch == <<"p", "a", "t", "c", "h">>
S_bump == <<"b", "u", "m", "p">>
S_final == <<"f", "i", "n", "a", "l">>
S_Minor == <<"M", "i", "n", "o", "r">>
S_BUMP == <<"B", "U", "M", "P">>

\* version fields a package.json may hold: valid, malformed, absent
StoredVersions == {V_1_0_8, V_9_9_9, V_1_2_3_rc_1, V_1_2, Null}

InitialRecords ==
    {Pkg(v, f) : v \in StoredVersions, f \in {"raw", "stringify"}} \cup {MissingFile, Garbled}

\* <version-input> values
Inputs ==
    {S_major, S_minor, S_patch, S_bump, S_final, S_Minor, S_BUMP,
     V_2_0_0_rc_1, V_2_0_0_RC_1, V_1_2, V_invalid, <<>>, Null}

\* --override values
Overrides == {Null, <<>>, V_2_5_0, V_1_2_3_rc_1, V_invalid}

----------------------------------------------------------------------------
(* The external calculator: npm version <bumpType> --no-git-tag-version    *)

\* npm accepts only strict semver: no leading zeros in the core triple
NpmAccepts(version) ==
    /\ version # Null
    /\ validateSemver(version)
    /\ CanonCore(version) = CoreText(version)

\* semver increment as npm computes it
NpmInc(bumpType, version) ==
    LET n == CoreNumbers(CoreText(version))
        pre == HasPrerelease(version)
    IN  IF bumpType = S_major
        THEN IF pre /\ n[2] = 0 /\ n[3] = 0
             THEN FmtCore(n) ELSE FmtCore(<<n[1] + 1, 0, 0>>)
        ELSE IF bumpType = S_minor
        THEN IF pre /\ n[3] = 0
             THEN FmtCore(n) ELSE FmtCore(<<n[1], n[2] + 1, 0>>)
        ELSE IF pre THEN FmtCore(n) ELSE FmtCore(<<n[1], n[2], n[3] + 1>>)

\* what a run of the calculator can do to the record r, and whether execSync
\* then returns ("ok...") or throws ("fail..."):
\*   ok          npm wrote the incremented version
\*   fail        npm failed and left the file alone
\*   fail_dirty  npm wrote the incremented version, then a lifecycle script failed
\*   ok_noversion, ok_garbled, ok_deleted
\*               the command exited 0 but a lifecycle script left the file
\*               without a version field, unparseable, or removed
CalcOutcomes ==
    {"ok", "fail", "fail_dirty", "ok_noversion", "ok_garbled", "ok_deleted"}

CalcPossible(o, r) == o = "fail" \/ (r.exists /\ r.json /\ NpmAccepts(r.version))

CalcEffect(o, bumpType, r) ==
    CASE o \in {"ok", "fail_dirty"} ->
             [r EXCEPT !.version = NpmInc(bumpType, r.version), !.fmt = "npm"]
      [] o = "fail" -> r
      [] o = "ok_noversion" -> [r EXCEPT !.version = Null, !.fmt = "npm"]
      [] o = "ok_garbled" -> Garbled
      [] OTHER -> MissingFile

CalcSucceeded(o) == o \in {"ok", "ok_noversion", "ok_garbled", "ok_deleted"}

----------------------------------------------------------------------------
(* getCurrentVersion and the dispatch of resolveVersion                    *)

\* a plausible slip: the override is ignored and the record is always read
getCurrentVersion_ignoreOverride(overrideVersion, r) ==
    IF ~r.exists \/ ~r.json
    THEN [st |-> "throw", v |-> Null, read |-> TRUE]
    ELSE IF ~Truthy(r.version)
    THEN [st |-> "exit", v |-> Null, read |-> TRUE]
    ELSE [st |-> "ok", v |-> r.version, read |-> TRUE]

\* st: "ok" returns v; "throw" is readFileSync or JSON.parse throwing;
\* "exit" is process.exit(1) after "No version found"; read tells whether the
\* file was read
getCurrentVersion(overrideVersion, r) ==
    IF Truthy(overrideVersion)
    THEN [st |-> "ok", v |-> overrideVersion, read |-> FALSE]
    ELSE IF ~r.exists \/ ~r.json
    THEN [st |-> "throw", v |-> Null, read |-> TRUE]
    ELSE IF ~Truthy(r.version)
    THEN [st |-> "exit", v |-> Null, read |-> TRUE]
    ELSE [st |-> "ok", v |-> r.version, read |-> TRUE]

\* a plausible slip: bump is routed through the calculator as well
IsBumpType_withBump(inputLower) == inputLower \in {S_major, S_minor, S_patch, S_bump}

\* inputLower === 'major' || inputLower === 'minor' || inputLower === 'patch'
IsBumpType(inputLower) == inputLower \in {S_major, S_minor, S_patch}

----------------------------------------------------------------------------
(* The calls *)

Finished(p, status, err, result) ==
    /\ pc' = [pc EXCEPT ![p] = "done"]
    /\ out' = [out EXCEPT ![p] = [status |-> status, err |-> err, result |-> result]]

\* the three ways into resolveVersion: "cli" is cli.js calling the exported
\* function, "lib" a direct call of the export, "script" the stand-alone
\* script, whose resolveVersion exits where the export throws
Entries == {"cli", "lib", "script"}

\* the checks of the command line before resolveVersion is called: the input
\* must be given, and a given override must be a version
Call(p, input, ov, entry) ==
    /\ ncalls' = ncalls + 1
    /\ LET override == IF entry # "lib" /\ ~Truthy(ov) THEN Null ELSE ov
       IN  /\ args' = [args EXCEPT ![p] = [input |-> input,
                                           overrideVersion |-> override,
                                           entry |-> entry]]
           /\ IF entry # "lib" /\ ~Truthy(input)
              THEN Finished(p, "rejected", "MissingInput", NoResult)
              ELSE IF entry # "lib" /\ Truthy(override) /\ ~validateSemver(override)
              THEN Finished(p, "rejected", "InvalidOverride", NoResult)
              ELSE /\ pc' = [pc EXCEPT ![p] = "resolve"]
                   /\ out' = [out EXCEPT ![p] = NoOut]
    /\ loc' = [loc EXCEPT ![p] = NoLoc]
    /\ obs' = [obs EXCEPT ![p] = [NoObs EXCEPT !.start = record]]
    /\ UNCHANGED <<record, record0, purevars>>

\* a caller starts a call, the first one or the next after the last finished
Invoke(p) ==
    /\ pc[p] \in {"idle", "done"}
    /\ ncalls < MaxCalls
    /\ \E input \in Inputs, ov \in Overrides, entry \in Entries :
         Call(p, input, ov, entry)

\* a plausible slip: only an absent input is refused, an empty one passes
InputMissing_absentOnly(input) == input = Null

\* if (!input)
InputMissing(input) == ~Truthy(input)

\* a plausible slip: the lowercased input is returned
ExplicitResult_lower(currentVersion, input, inputLower) ==
    [original |-> currentVersion, version |-> inputLower]

\* return { original: currentVersion, version: input }
ExplicitResult(currentVersion, input, inputLower) ==
    [original |-> currentVersion, version |-> input]

\* how resolveVersion reports a missing input or an invalid explicit version:
\* the export throws, the stand-alone script calls process.exit(1)
Raised(entry) == IF entry = "script" THEN "exited" ELSE "threw"

\* resolveVersion up to its return or its call of calculateBumpVersion
Resolve(p) ==
    /\ pc[p] = "resolve"
    /\ LET input == args[p].input
           g == getCurrentVersion(args[p].overrideVersion, record)
       IN  IF InputMissing(input)
           THEN /\ Finished(p, Raised(args[p].entry), "MissingInput", NoResult)
                /\ obs' = [obs EXCEPT ![p].resolve = TRUE]
                /\ loc' = loc
           ELSE /\ obs' = [obs EXCEPT ![p].resolve = TRUE,
                                      ![p].read = obs[p].read \/ g.read]
                /\ loc' = [loc EXCEPT ![p].currentVersion = g.v]
                /\ IF g.st = "throw"
                   THEN Finished(p, "threw", "ReadError", NoResult)
                   ELSE IF g.st = "exit"
                   THEN Finished(p, "exited", "NoVersion", NoResult)
                   ELSE IF IsBumpType(toLowerCase(input))
                   THEN /\ pc' = [pc EXCEPT ![p] = "cbv_original"]
                        /\ out' = out
                   ELSE IF toLowerCase(input) = S_bump
                   THEN Finished(p, "returned", "none",
                                 [original |-> g.v, version |-> bumpPatchVersion(g.v)])
                   ELSE IF toLowerCase(input) = S_final
                   THEN Finished(p, "returned", "none",
                                 [original |-> g.v, version |-> stripPrerelease(g.v)])
                   ELSE IF ~validateSemver(input)
                   THEN Finished(p, Raised(args[p].entry), "InvalidFormat", NoResult)
                   ELSE Finished(p, "returned", "none",
                                 ExplicitResult(g.v, input, toLowerCase(input)))
    /\ UNCHANGED <<record, record0, args, ncalls, purevars>>

\* calculateBumpVersion: const originalVersion = getCurrentVersion(...)
CbvOriginal(p) ==
    /\ pc[p] = "cbv_original"
    /\ LET g == getCurrentVersion(args[p].overrideVersion, record)
       IN  /\ obs' = [obs EXCEPT ![p].read = obs[p].read \/ g.read]
           /\ loc' = [loc EXCEPT ![p].originalVersion = g.v]
           /\ IF g.st = "throw"
              THEN Finished(p, "threw", "ReadError", NoResult)
              ELSE IF g.st = "exit"
              THEN Finished(p, "exited", "NoVersion", NoResult)
              ELSE /\ pc' = [pc EXCEPT ![p] = "cbv_snapshot"]
                   /\ out' = out
    /\ UNCHANGED <<record, record0, args, ncalls, purevars>>

\* calculateBumpVersion: originalPkgContent = readFileSync(...); JSON.parse
CbvSnapshot(p) ==
    /\ pc[p] = "cbv_snapshot"
    /\ obs' = [obs EXCEPT ![p].read = TRUE]
    /\ IF ~record.exists \/ ~record.json
       THEN /\ Finished(p, "threw", "ReadError", NoResult)
            /\ loc' = loc
       ELSE /\ loc' = [loc EXCEPT ![p].originalPkgContent = record]
            /\ pc' = [pc EXCEPT ![p] = IF Truthy(args[p].overrideVersion)
                                       THEN "cbv_override" ELSE "cbv_exec"]
            /\ out' = out
    /\ UNCHANGED <<record, record0, args, ncalls, purevars>>

\* a plausible slip: the override is set on the parsed object but the file is
\* not written before the calculator runs
CbvOverride_noWrite(p) ==
    /\ pc[p] = "cbv_override"
    /\ record' = record
    /\ obs' = [obs EXCEPT ![p].wrote = TRUE]
    /\ pc' = [pc EXCEPT ![p] = "cbv_exec"]
    /\ UNCHANGED <<record0, args, loc, out, ncalls, purevars>>

\* calculateBumpVersion: pkg.version = overrideVersion; writeFileSync(...)
CbvOverride(p) ==
    /\ pc[p] = "cbv_override"
    /\ record' = [loc[p].originalPkgContent EXCEPT
                     !.version = args[p].overrideVersion, !.fmt = "stringify"]
    /\ obs' = [obs EXCEPT ![p].wrote = TRUE]
    /\ pc' = [pc EXCEPT ![p] = "cbv_exec"]
    /\ UNCHANGED <<record0, args, loc, out, ncalls, purevars>>

\* calculateBumpVersion: execSync(`npm version ${bumpType} ...`)
CbvExec(p) ==
    /\ pc[p] = "cbv_exec"
    /\ \E o \in CalcOutcomes :
         /\ CalcPossible(o, record)
         /\ record' = CalcEffect(o, toLowerCase(args[p].input), record)
         /\ obs' = [obs EXCEPT ![p].calc = o, ![p].seen = record, ![p].left = record']
         /\ pc' = [pc EXCEPT ![p] = IF CalcSucceeded(o) THEN "cbv_new" ELSE "cbv_catch"]
    /\ UNCHANGED <<record0, args, loc, out, ncalls, purevars>>

\* a plausible slip: the new version is read after the file was put back, so
\* it is the version of the snapshot
CbvNewVersion_afterRestore(p) ==
    /\ pc[p] = "cbv_new"
    /\ LET g == getCurrentVersion(Null, loc[p].originalPkgContent)
       IN  /\ obs' = [obs EXCEPT ![p].read = obs[p].read \/ g.read]
           /\ loc' = [loc EXCEPT ![p].newVersion = g.v]
           /\ IF g.st = "throw"
              THEN /\ pc' = [pc EXCEPT ![p] = "cbv_catch"]
                   /\ out' = out
              ELSE IF g.st = "exit"
              THEN Finished(p, "exited", "NoVersion", NoResult)
              ELSE /\ pc' = [pc EXCEPT ![p] = "cbv_restore"]
                   /\ out' = out
    /\ UNCHANGED <<record, record0, args, ncalls, purevars>>

\* calculateBumpVersion: const newVersion = getCurrentVersion(null, ...),
\* inside the try block
CbvNewVersion(p) ==
    /\ pc[p] = "cbv_new"
    /\ LET g == getCurrentVersion(Null, record)
       IN  /\ obs' = [obs EXCEPT ![p].read = obs[p].read \/ g.read]
           /\ loc' = [loc EXCEPT ![p].newVersion = g.v]
           /\ IF g.st = "throw"
              THEN /\ pc' = [pc EXCEPT ![p] = "cbv_catch"]
                   /\ out' = out
              ELSE IF g.st = "exit"
              THEN Finished(p, "exited", "NoVersion", NoResult)
              ELSE /\ pc' = [pc EXCEPT ![p] = "cbv_restore"]
                   /\ out' = out
    /\ UNCHANGED <<record, record0, args, ncalls, purevars>>

\* a plausible slip: the fields of the returned object are filled from the
\* same variable
CbvRestore_returnOriginal(p) ==
    /\ pc[p] = "cbv_restore"
    /\ record' = loc[p].originalPkgContent
    /\ obs' = [obs EXCEPT ![p].wrote = TRUE, ![p].restored = TRUE]
    /\ Finished(p, "returned", "none",
                [original |-> loc[p].originalVersion, version |-> loc[p].originalVersion])
    /\ UNCHANGED <<record0, args, loc, ncalls, purevars>>

\* calculateBumpVersion: writeFileSync(pkgPath, originalPkgContent); return
CbvRestore(p) ==
    /\ pc[p] = "cbv_restore"
    /\ record' = loc[p].originalPkgContent
    /\ obs' = [obs EXCEPT ![p].wrote = TRUE, ![p].restored = TRUE]
    /\ Finished(p, "returned", "none",
                [original |-> loc[p].originalVersion, version |-> loc[p].newVersion])
    /\ UNCHANGED <<record0, args, loc, ncalls, purevars>>

\* a plausible slip: the catch block reports the failure without putting the
\* file back
CbvCatch_noRestore(p) ==
    /\ pc[p] = "cbv_catch"
    /\ record' = record
    /\ obs' = obs
    /\ Finished(p, "exited", "CalcError", NoResult)
    /\ UNCHANGED <<record0, args, loc, ncalls, purevars>>

\* calculateBumpVersion: catch (error) { writeFileSync(...); process.exit(1) }
\* the message printed is that of the error caught: the calculator's, or the
\* one of a restore write that threw inside the try block
CbvCatch(p) ==
    /\ pc[p] = "cbv_catch"
    /\ record' = loc[p].originalPkgContent
    /\ obs' = [obs EXCEPT ![p].wrote = TRUE, ![p].restored = TRUE]
    /\ Finished(p, "exited",
                IF obs[p].restoreFailed THEN "WriteError" ELSE "CalcError", NoResult)
    /\ UNCHANGED <<record0, args, loc, ncalls, purevars>>

PureIdle ==
    /\ bv0 = <<>>
    /\ bprev = <<>>
    /\ bv = <<>>
    /\ bn = 0

\* one caller: calls never overlap
Init ==
    /\ record \in InitialRecords
    /\ record0 = record
    /\ pc = [p \in Procs |-> IF p = 1 THEN "idle" ELSE "off"]
    /\ args = [p \in Procs |-> NoCall]
    /\ loc = [p \in Procs |-> NoLoc]
    /\ out = [p \in Procs |-> NoOut]
    /\ obs = [p \in Procs |-> NoObs]
    /\ ncalls = 0
    /\ PureIdle

Next ==
    \E p \in Procs :
        \/ Invoke(p)
        \/ Resolve(p)
        \/ CbvOriginal(p)
        \/ CbvSnapshot(p)
        \/ CbvOverride(p)
        \/ CbvExec(p)
        \/ CbvNewVersion(p)
        \/ CbvRestore(p)
        \/ CbvCatch(p)

Spec == Init /\ [][Next]_vars

----------------------------------------------------------------------------
(* Two processes, each running one increment call against the same file   *)

ConcInputs == {S_minor, S_patch}
ConcOverrides == {Null, V_2_5_0}
ConcRecords == {Pkg(V_1_0_8, "raw"), Pkg(V_1_2_3_rc_1, "stringify")}

\* a process runs the command line once with major, minor or patch
InvokeIncrement(p) ==
    /\ pc[p] = "idle"
    /\ ncalls < MaxCalls
    /\ \E input \in ConcInputs, ov \in ConcOverrides :
         Call(p, input, ov, "cli")

InitConc ==
    /\ record \in ConcRecords
    /\ record0 = record
    /\ pc = [p \in Procs |-> "idle"]
    /\ args = [p \in Procs |-> NoCall]
    /\ loc = [p \in Procs |-> NoLoc]
    /\ out = [p \in Procs |-> NoOut]
    /\ obs = [p \in Procs |-> NoObs]
    /\ ncalls = 0
    /\ PureIdle

\* the steps of the two processes interleave at every file access
NextConc ==
    \E p \in Procs :
        \/ InvokeIncrement(p)
        \/ Resolve(p)
        \/ CbvOriginal(p)
        \/ CbvSnapshot(p)
        \/ CbvOverride(p)
        \/ CbvExec(p)
        \/ CbvNewVersion(p)
        \/ CbvRestore(p)
        \/ CbvCatch(p)

SpecConc == InitConc /\ [][NextConc]_vars

----------------------------------------------------------------------------
(* A file system on which writeFileSync can throw. Spec and SpecConc take  *)
(* every write to succeed; SpecWrite is one increment call in which each   *)
(* write either succeeds or throws.                                        *)

\* what a writeFileSync that threw can leave behind: the file untouched
\* (EACCES, EROFS), or truncated after it was opened for writing (ENOSPC)
AfterFailedWrite(r) == {r, Garbled}

\* the override write throws, before the try block: the exception leaves
\* calculateBumpVersion and resolveVersion
CbvOverrideFails(p) ==
    /\ pc[p] = "cbv_override"
    /\ record' \in AfterFailedWrite(record)
    /\ obs' = [obs EXCEPT ![p].wrote = TRUE]
    /\ Finished(p, "threw", "WriteError", NoResult)
    /\ UNCHANGED <<record0, args, loc, ncalls, purevars>>

\* a plausible slip: the restore is wrapped in a try of its own whose catch
\* is empty, and the result is returned all the same
CbvRestoreFails_swallowed(p) ==
    /\ pc[p] = "cbv_restore"
    /\ record' \in AfterFailedWrite(record)
    /\ obs' = [obs EXCEPT ![p].wrote = TRUE, ![p].restoreFailed = TRUE]
    /\ Finished(p, "returned", "none",
                [original |-> loc[p].originalVersion, version |-> loc[p].newVersion])
    /\ UNCHANGED <<record0, args, loc, ncalls, purevars>>

\* the restore write of the try block throws: control passes to the catch
\* block, nothing is returned
CbvRestoreFails(p) ==
    /\ pc[p] = "cbv_restore"
    /\ record' \in AfterFailedWrite(record)
    /\ obs' = [obs EXCEPT ![p].wrote = TRUE, ![p].restoreFailed = TRUE]
    /\ pc' = [pc EXCEPT ![p] = "cbv_catch"]
    /\ UNCHANGED <<record0, args, loc, out, ncalls, purevars>>

\* the restore write of the catch block throws: the exception leaves the
\* catch block, calculateBumpVersion and resolveVersion; console.error and
\* process.exit(1) of the catch block are not reached
CbvCatchFails(p) ==
    /\ pc[p] = "cbv_catch"
    /\ record' \in AfterFailedWrite(record)
    /\ obs' = [obs EXCEPT ![p].wrote = TRUE, ![p].restoreFailed = TRUE]
    /\ Finished(p, "threw", "WriteError", NoResult)
    /\ UNCHANGED <<record0, args, loc, ncalls, purevars>>

\* one increment call, each of whose writes either succeeds or throws
NextWrite ==
    \E p \in Procs :
        \/ InvokeIncrement(p)
        \/ Resolve(p)
        \/ CbvOriginal(p)
        \/ CbvSnapshot(p)
        \/ CbvOverride(p)
        \/ CbvOverrideFails(p)
        \/ CbvExec(p)
        \/ CbvNewVersion(p)
        \/ CbvRestore(p)
        \/ CbvRestoreFails(p)
        \/ CbvCatch(p)
        \/ CbvCatchFails(p)

SpecWrite == Init /\ [][NextWrite]_vars

----------------------------------------------------------------------------
(* Calls repeated one after the other against one file, with a calculator  *)
(* that is a function of its input. Two callers take turns, so that the    *)
(* outcome of an earlier call stays at hand while later calls run.         *)

\* the other fields of a package.json whose scripts hold a "version"
\* lifecycle script that rewrites the file without its version field when
\* the minor number changes
WithVersionScript == "fields, version script"

\* npm version as a function of the bump type and the file it finds
DetOutcome(bumpType, r) ==
    IF ~(r.exists /\ r.json /\ NpmAccepts(r.version)) THEN "fail"
    ELSE IF r.other = WithVersionScript /\ bumpType = S_minor THEN "ok_noversion"
    ELSE "ok"

\* calculateBumpVersion: execSync(`npm version ${bumpType} ...`), the
\* calculator being that function
CbvExecDet(p) ==
    /\ pc[p] = "cbv_exec"
    /\ LET o == DetOutcome(toLowerCase(args[p].input), record)
       IN  /\ record' = CalcEffect(o, toLowerCase(args[p].input), record)
           /\ obs' = [obs EXCEPT ![p].calc = o, ![p].seen = record, ![p].left = record']
           /\ pc' = [pc EXCEPT ![p] = IF CalcSucceeded(o) THEN "cbv_new" ELSE "cbv_catch"]
    /\ UNCHANGED <<record0, args, loc, out, ncalls, purevars>>

RepeatInputs == {S_minor, S_patch, S_bump, S_final, V_2_0_0_rc_1}
RepeatOverrides == {Null, V_2_5_0}
RepeatRecords ==
    {[Pkg(v, "raw") EXCEPT !.other = o] :
        v \in {V_1_0_8, V_1_2_3_rc_1, V_1_2}, o \in {"fields", WithVersionScript}}

\* a caller starts a call while no other call is running
InvokeInTurn(p) ==
    /\ \A q \in Procs : pc[q] \in {"idle", "done"}
    /\ ncalls < MaxTurns
    /\ \E input \in RepeatInputs, ov \in RepeatOverrides :
         Call(p, input, ov, "lib")

InitRepeat ==
    /\ record \in RepeatRecords
    /\ record0 = record
    /\ pc = [p \in Procs |-> "idle"]
    /\ args = [p \in Procs |-> NoCall]
    /\ loc = [p \in Procs |-> NoLoc]
    /\ out = [p \in Procs |-> NoOut]
    /\ obs = [p \in Procs |-> NoObs]
    /\ ncalls = 0
    /\ PureIdle

NextRepeat ==
    \E p \in Procs :
        \/ InvokeInTurn(p)
        \/ Resolve(p)
        \/ CbvOriginal(p)
        \/ CbvSnapshot(p)
        \/ CbvOverride(p)
        \/ CbvExecDet(p)
        \/ CbvNewVersion(p)
        \/ CbvRestore(p)
        \/ CbvCatch(p)

SpecRepeat == InitRepeat /\ [][NextRepeat]_vars

----------------------------------------------------------------------------
(* Claims about resolve calls *)

\* how the caller's token is classified, read off the token itself
TokenIs(p, word) == Truthy(args[p].input) /\ toLowerCase(args[p].input) = word

IncrementCall(p) == TokenIs(p, S_major) \/ TokenIs(p, S_minor) \/ TokenIs(p, S_patch)

ExplicitCall(p) ==
    /\ Truthy(args[p].input)
    /\ ~IncrementCall(p) /\ ~TokenIs(p, S_bump) /\ ~TokenIs(p, S_final)

Quiescent == \A p \in Procs : pc[p] \in {"off", "idle", "done"}

\* C1 as stated: when a major/minor/patch increment call has returned or
\* failed, the record's content is what it was when the call began, and
\* between calls the record holds its initial content.
C1_IncrementLeavesRecord ==
    /\ \A p \in Procs :
         (pc[p] = "done" /\ obs[p].resolve /\ IncrementCall(p)) => record = obs[p].start
    /\ Quiescent => record = record0

\* what does hold: an increment call leaves the record as it found it on
\* every path except the exit taken while reading the new version
IncrementRestoresUnlessExitInTry ==
    \A p \in Procs :
        (pc[p] = "done" /\ obs[p].resolve /\ IncrementCall(p)
            /\ ~(CalcSucceeded(obs[p].calc) /\ out[p].err = "NoVersion"))
            => record = obs[p].start

\* C2 as stated: if the calculator succeeded and reading the new version
\* field from the record then failed, the record equals the snapshot when the
\* failure is reported.
C2_RestoredWhenNewVersionUnreadable ==
    \A p \in Procs :
        (pc[p] = "done" /\ CalcSucceeded(obs[p].calc) /\ out[p].status # "returned")
            => record = loc[p].originalPkgContent

\* C3: a resolve call whose token is bump, final or an explicit version never
\* writes the record and never invokes the calculator, whether it succeeds or
\* fails, and the record keeps the content it had when the call began; the
\* record changes only while a major/minor/patch call is in progress.
C3_NonIncrementCallsArePure ==
    \A p \in Procs :
        /\ (obs[p].resolve /\ ~IncrementCall(p) /\ Truthy(args[p].input))
              => /\ ~obs[p].wrote
                 /\ obs[p].calc = "none"
                 /\ record = obs[p].start
        /\ (pc[p] \notin {"off", "idle"}
               /\ (obs[p].wrote \/ obs[p].calc # "none" \/ record # obs[p].start))
              => IncrementCall(p)

\* a second call, bump on 1.0.8, has returned 1.0.8-rc.1
C3_Witness ==
    /\ pc[1] = "done"
    /\ obs[1].resolve
    /\ TokenIs(1, S_bump)
    /\ out[1].status = "returned"
    /\ out[1].result.version = V_1_0_8 \o Hyphen \o RcDot \o <<"1">>
    /\ ncalls = 2

\* C4 as stated: whenever the explicit-version token or the override fails
\* semver validation, the call fails with the invalid-format error and the
\* record has been neither read nor written.
C4_ValidatedBeforeRecordAccess ==
    \A p \in Procs :
        (pc[p] = "done" /\ Truthy(args[p].input)
            /\ \/ ExplicitCall(p) /\ ~validateSemver(args[p].input)
               \/ Truthy(args[p].overrideVersion) /\ ~validateSemver(args[p].overrideVersion))
            => /\ out[p].err \in {"InvalidFormat", "InvalidOverride"}
               /\ ~obs[p].read
               /\ ~obs[p].wrote

\* C5 as stated: every failure of a resolve call reaches the caller as a
\* thrown error; the core never terminates the process.
C5_FailuresAreThrown ==
    \A p \in Procs :
        (pc[p] = "done" /\ obs[p].resolve /\ out[p].status # "returned")
            => out[p].status = "threw"

\* C6 as stated: without an override, a stored version that fails validation
\* is never taken as the current version (the read fails instead).
C6_StoredVersionValidated ==
    \A p \in Procs :
        (obs[p].resolve /\ ~Truthy(args[p].overrideVersion)
            /\ loc[p].currentVersion # Null)
            => validateSemver(loc[p].currentVersion)

\* C7: when an override is supplied the current version is the override, and
\* for bump, final and a valid explicit version the call succeeds with
\* original = override without the record being read or written, whatever
\* the record holds.
C7_OverrideReplacesRecord ==
    \A p \in Procs :
        (obs[p].resolve /\ Truthy(args[p].input) /\ Truthy(args[p].overrideVersion))
            => /\ loc[p].currentVersion = args[p].overrideVersion
               /\ out[p].status = "returned" => out[p].result.original = args[p].overrideVersion
               /\ (pc[p] = "done" /\ ~IncrementCall(p)
                      /\ (ExplicitCall(p) => validateSemver(args[p].input)))
                     => /\ out[p].status = "returned"
                        /\ ~obs[p].read
                        /\ ~obs[p].wrote
                        /\ record = obs[p].start

\* bump with an override has succeeded although there is no file to read
C7_Witness ==
    /\ pc[1] = "done"
    /\ TokenIs(1, S_bump)
    /\ args[1].overrideVersion = V_2_5_0
    /\ record = MissingFile
    /\ out[1].status = "returned"
    /\ out[1].result = [original |-> V_2_5_0,
                        version |-> V_2_5_0 \o Hyphen \o RcDot \o <<"1">>]

----------------------------------------------------------------------------
(* Claims about bump *)

One == <<"1">>

C9_BumpIncrementsRc ==
    (bn >= 1 /\ validateSemver(bprev) /\ HasPrerelease(bprev)
        /\ ExactlyRcN(PrereleaseOf(bprev)))
        => /\ validateSemver(bv)
           /\ CoreTriple(bv) = CoreTriple(bprev)
           /\ PrereleaseOf(bv) = RcDot \o SuccDigits(StripZeros(RcDigits(PrereleaseOf(bprev))))

\* bump of a version with prerelease rc.99 has given prerelease rc.100
C9_Witness ==
    /\ bn >= 1
    /\ HasPrerelease(bprev)
    /\ PrereleaseOf(bprev) = <<"r", "c", ".", "9", "9">>
    /\ PrereleaseOf(bv) = <<"r", "c", ".", "1", "0", "0">>

\* C10 as stated: for every valid version whose prerelease (the whole text
\* after the first hyphen) is present but is not exactly rc.<N>, bump returns
\* the same core triple with prerelease rc.1.
C10_BumpReplacesOtherPrerelease ==
    (bn >= 1 /\ validateSemver(bprev) /\ HasPrerelease(bprev)
        /\ ~ExactlyRcN(PrereleaseOf(bprev)))
        => /\ CoreTriple(bv) = CoreTriple(bprev)
           /\ PrereleaseOf(bv) = RcDot \o One

\* what does hold: when the prerelease up to its own first hyphen is not
\* rc.<N>, bump returns the same core triple with prerelease rc.1
BumpReplacesUnlessRcBeforeHyphen ==
    (bn >= 1 /\ validateSemver(bprev) /\ HasPrerelease(bprev)
        /\ ~ExactlyRcN(CoreText(PrereleaseOf(bprev))))
        => /\ CoreTriple(bv) = CoreTriple(bprev)
           /\ PrereleaseOf(bv) = RcDot \o One


----------------------------------------------------------------------------
(* Claims about final *)

\* C11: for every valid version v, final returns exactly the core triple of
\* v as written, the whole prerelease removed also when it holds hyphens,
\* and returns v unchanged when v has no prerelease
C11_FinalReturnsCore ==
    bn >= 1 =>
        /\ bv = CoreText(bprev)
        /\ ~HasPrerelease(bv)
        /\ ~HasPrerelease(bprev) => bv = bprev

\* final has been applied to 9.01.0-a-rc.9, whose prerelease holds a hyphen
C11_Witness ==
    /\ bn = 1
    /\ bprev = <<"9", ".", "0", "1", ".", "0", "-", "a", "-", "r", "c", ".", "9">>
    /\ bv = <<"9", ".", "0", "1", ".", "0">>

\* C12: final is idempotent: final(final(v)) = final(v)
C12_FinalIdempotent == bn >= 2 => bv = bprev

\* final has been applied twice to a version with a hyphen in its prerelease
C12_Witness ==
    /\ bn = 2
    /\ HasPrerelease(PrereleaseOf(bv0))
    /\ bv = bprev
    /\ bv # bv0

----------------------------------------------------------------------------
(* Claims about explicit versions, missing input and letter case *)

\* the current version a call without overlap is to report: the override
\* when one is given, else the version field of the record
CurrentOf(p) ==
    IF Truthy(args[p].overrideVersion) THEN args[p].overrideVersion
    ELSE obs[p].start.version

CurrentAvailable(p) ==
    \/ Truthy(args[p].overrideVersion)
    \/ obs[p].start.exists /\ obs[p].start.json /\ Truthy(obs[p].start.version)

\* C13: for every token that is no symbolic command and matches the version
\* grammar, resolve returns original = the current version (the override, or
\* the record's version) and version = the token exactly as given; the call
\* returns whenever the current version can be obtained
C13_ExplicitVersionReturned ==
    \A p \in Procs :
        (pc[p] = "done" /\ obs[p].resolve /\ ExplicitCall(p)
            /\ validateSemver(args[p].input))
            => /\ out[p].status = "returned"
                    => out[p].result = [original |-> CurrentOf(p),
                                        version |-> args[p].input]
               /\ CurrentAvailable(p) => out[p].status = "returned"

\* the explicit version 2.0.0-RC.1 has been resolved against a stored 1.0.8
C13_Witness ==
    /\ pc[1] = "done"
    /\ args[1].input = V_2_0_0_RC_1
    /\ args[1].overrideVersion = Null
    /\ out[1].status = "returned"
    /\ out[1].result = [original |-> V_1_0_8, version |-> V_2_0_0_RC_1]

\* C14: for every token that is neither a symbolic command in any letter
\* case nor a match of the version grammar, resolve fails with
\* InvalidVersionFormatError and produces no result
C14_InvalidTokenRejected ==
    \A p \in Procs :
        (pc[p] = "done" /\ obs[p].resolve /\ ExplicitCall(p)
            /\ ~validateSemver(args[p].input))
            => /\ out[p].status # "returned"
               /\ out[p].err = "InvalidFormat"

\* the part of C14 that the code does meet: no result is produced, and the
\* error is InvalidVersionFormatError whenever the current version can be
\* obtained
InvalidTokenNeverReturned ==
    \A p \in Procs :
        (pc[p] = "done" /\ obs[p].resolve /\ ExplicitCall(p)
            /\ ~validateSemver(args[p].input))
            => /\ out[p].status # "returned"
               /\ out[p].result = NoResult
               /\ CurrentAvailable(p) => out[p].err = "InvalidFormat"

\* C15: resolve with an empty or absent token fails with MissingInputError
\* before the record is read or written and before the calculator is invoked
C15_MissingInputFailsFirst ==
    \A p \in Procs :
        (pc[p] = "done" /\ ~Truthy(args[p].input))
            => /\ out[p].status \in {"threw", "exited", "rejected"}
               /\ out[p].err = "MissingInput"
               /\ out[p].result = NoResult
               /\ ~obs[p].read
               /\ ~obs[p].wrote
               /\ obs[p].calc = "none"
               /\ record = obs[p].start

\* the exported function has thrown on an empty token while a readable record
\* with a version was in place
C15_Witness ==
    /\ pc[1] = "done"
    /\ args[1].entry = "lib"
    /\ args[1].input = <<>>
    /\ obs[1].resolve
    /\ out[1].status = "threw"
    /\ out[1].err = "MissingInput"
    /\ record = Pkg(V_1_0_8, "raw")

\* s is word in some letter case
SpellingOf(word, s) ==
    /\ s # Null
    /\ Len(s) = Len(word)
    /\ \A i \in 1..Len(word) : LowerChar(s[i]) = word[i]

SymbolicWords == {S_major, S_minor, S_patch, S_bump, S_final}

\* C16: a symbolic command in any letter case takes the path of its lowercase
\* spelling and gives that spelling's result, while an explicit version is
\* validated and returned in the letter case it was given in
C16_CommandsCaseInsensitive ==
    \A p \in Procs :
        (pc[p] = "done" /\ obs[p].resolve /\ Truthy(args[p].input)) =>
            LET input == args[p].input
                res == out[p].result
                ok == out[p].status = "returned"
            IN  /\ \A w \in SymbolicWords :
                     SpellingOf(w, input) =>
                        /\ out[p].err # "InvalidFormat"
                        /\ (w = S_bump /\ CurrentAvailable(p)) =>
                              /\ ok
                              /\ res = [original |-> CurrentOf(p),
                                        version |-> bumpPatchVersion(CurrentOf(p))]
                        /\ (w = S_final /\ CurrentAvailable(p)) =>
                              /\ ok
                              /\ res = [original |-> CurrentOf(p),
                                        version |-> stripPrerelease(CurrentOf(p))]
                        /\ (w \in {S_major, S_minor, S_patch} /\ ok) =>
                              /\ obs[p].calc = "ok"
                              /\ res.original = CurrentOf(p)
                              /\ res.version = NpmInc(w, obs[p].seen.version)
                /\ ((\A w \in SymbolicWords : ~SpellingOf(w, input)) /\ ok) =>
                      /\ validateSemver(input)
                      /\ res.version = input

\* Minor has been resolved through the calculator as minor is
C16_Witness ==
    /\ pc[1] = "done"
    /\ args[1].input = S_Minor
    /\ args[1].overrideVersion = Null
    /\ out[1].status = "returned"
    /\ out[1].result = [original |-> V_1_0_8, version |-> <<"1", ".", "1", ".", "0">>]

----------------------------------------------------------------------------
(* Claims about major, minor and patch *)

\* the command word of an increment call
WordOf(p) == CHOOSE w \in {S_major, S_minor, S_patch} : TokenIs(p, w)

Zero == <<"0">>

\* X.Y.Z incremented at major, minor or patch, on canonical numerals
Incremented(w, v) ==
    LET t == CoreTriple(v)
    IN  IF w = S_major THEN SuccDigits(t[1]) \o Dot \o Zero \o Dot \o Zero
        ELSE IF w = S_minor THEN t[1] \o Dot \o SuccDigits(t[2]) \o Dot \o Zero
        ELSE t[1] \o Dot \o t[2] \o Dot \o SuccDigits(t[3])

\* C17: for major, minor or patch with an override, original = the override
\* and version = the calculator's increment of the override, not of the
\* stored version; the record the calculator sees has the fields of the
\* snapshot with only the version field replaced by the override
C17_IncrementFromOverride ==
    \A p \in Procs :
        (obs[p].resolve /\ IncrementCall(p) /\ Truthy(args[p].overrideVersion)) =>
            LET override == args[p].overrideVersion
                snapshot == loc[p].originalPkgContent
            IN  /\ obs[p].calc # "none" =>
                      /\ snapshot = obs[p].start
                      /\ obs[p].seen.version = override
                      /\ [obs[p].seen EXCEPT !.version = snapshot.version,
                                             !.fmt = snapshot.fmt] = snapshot
                /\ out[p].status = "returned" =>
                      /\ obs[p].calc = "ok"
                      /\ out[p].result.original = override
                      /\ out[p].result.version = NpmInc(WordOf(p), override)
                      /\ out[p].result.version = obs[p].left.version

\* minor with the override 2.5.0 has returned 2.6.0 while the record holds
\* 1.0.8
C17_Witness ==
    /\ pc[1] = "done"
    /\ args[1].input = S_minor
    /\ args[1].overrideVersion = V_2_5_0
    /\ obs[1].start = Pkg(V_1_0_8, "raw")
    /\ out[1].status = "returned"
    /\ out[1].result = [original |-> V_2_5_0, version |-> <<"2", ".", "6", ".", "0">>]
    /\ out[1].result.version # NpmInc(S_minor, obs[1].start.version)

\* C18: for a current version X.Y.Z without prerelease, major returns
\* (X+1).0.0, minor X.(Y+1).0 and patch X.Y.(Z+1), each with original =
\* X.Y.Z, and the returned version is exactly the version field the
\* calculator left in the record
C18_IncrementOfRelease ==
    \A p \in Procs :
        (pc[p] = "done" /\ obs[p].resolve /\ IncrementCall(p)) =>
            /\ out[p].status = "returned" =>
                  /\ obs[p].calc = "ok"
                  /\ out[p].result.original = CurrentOf(p)
                  /\ out[p].result.version = obs[p].left.version
                  /\ ~HasPrerelease(CurrentOf(p)) =>
                        out[p].result.version = Incremented(WordOf(p), CurrentOf(p))
            /\ obs[p].calc = "ok" => out[p].status = "returned"

\* major on a stored 9.9.9 has returned 10.0.0
C18_Witness ==
    /\ pc[1] = "done"
    /\ args[1].input = S_major
    /\ args[1].overrideVersion = Null
    /\ out[1].status = "returned"
    /\ out[1].result = [original |-> V_9_9_9,
                        version |-> <<"1", "0", ".", "0", ".", "0">>]

\* C19: for a current version X.Y.Z-<prerelease>, patch returns X.Y.Z and
\* major returns (X+1).0.0 when Y or Z is not zero; the result of major,
\* minor and patch never carries a prerelease tag
C19_IncrementOfPrerelease ==
    \A p \in Procs :
        (pc[p] = "done" /\ obs[p].resolve /\ IncrementCall(p)
            /\ out[p].status = "returned") =>
            LET current == CurrentOf(p)
                t == CoreTriple(current)
                version == out[p].result.version
            IN  /\ ~HasPrerelease(version)
                /\ (HasPrerelease(current) /\ WordOf(p) = S_patch)
                      => version = CoreText(current)
                /\ (HasPrerelease(current) /\ WordOf(p) = S_major
                        /\ (t[2] # Zero \/ t[3] # Zero))
                      => version = Incremented(S_major, current)

\* patch on a stored 1.2.3-rc.1 has returned 1.2.3
C19_Witness ==
    /\ pc[1] = "done"
    /\ args[1].input = S_patch
    /\ args[1].overrideVersion = Null
    /\ out[1].status = "returned"
    /\ out[1].result = [original |-> V_1_2_3_rc_1,
                        version |-> <<"1", ".", "2", ".", "3">>]

\* major on the override 1.2.3-rc.1 has returned 2.0.0
C19_MajorReached ==
    /\ pc[1] = "done"
    /\ args[1].input = S_major
    /\ args[1].overrideVersion = V_1_2_3_rc_1
    /\ out[1].status = "returned"
    /\ out[1].result = [original |-> V_1_2_3_rc_1,
                        version |-> <<"2", ".", "0", ".", "0">>]

----------------------------------------------------------------------------
(* Claims about concurrent calls *)

\* the call of p ended in process.exit inside the try block, with no restore
ExitedInTry(p) ==
    /\ pc[p] = "done"
    /\ CalcSucceeded(obs[p].calc)
    /\ out[p].status = "exited"
    /\ out[p].err = "NoVersion"

\* the snapshot p took is not the file as it was before either call began:
\* it holds a temporary write of the other call
ForeignSnapshot(p) ==
    /\ loc[p].originalPkgContent # NoRecord
    /\ loc[p].originalPkgContent # record0

\* C20: two increment calls running concurrently against the same record can
\* interleave their snapshot, override-write, calculator and restore steps so
\* that after both have finished the record differs from its content before
\* either began (C20_Witness is such a run); the record ends up different
\* only when a call's snapshot captured the other call's temporary write, or
\* when a call exited inside the try block
C20_ConcurrentCallsCorrupt ==
    (Quiescent /\ record # record0)
        => \E p \in Procs : ForeignSnapshot(p) \/ ExitedInTry(p)

\* both calls have returned after a successful calculator run, and the record
\* is not what it was before they began
C20_Witness ==
    /\ \A p \in Procs :
          /\ pc[p] = "done"
          /\ out[p].status = "returned"
          /\ obs[p].calc = "ok"
    /\ record0 = Pkg(V_1_0_8, "raw")
    /\ record # record0

\* a call has returned a version computed from the other call's temporary
\* write while the record was put back as it was
ReturnedFromForeignWrite ==
    /\ \A p \in Procs :
          /\ pc[p] = "done"
          /\ out[p].status = "returned"
          /\ obs[p].calc = "ok"
          /\ args[p].overrideVersion = Null
    /\ record = record0
    /\ \E p \in Procs : out[p].result.original # record0.version

----------------------------------------------------------------------------
(* Claims about the text of the core triple *)

----------------------------------------------------------------------------
(* Claims about the shape of results *)

\* C24: every successful resolve call, for any token, override and record
\* content, returns an original and a version that both match the version
\* grammar, bump and final on a malformed stored version included
C24_ResultsMatchGrammar ==
    \A p \in Procs :
        (pc[p] = "done" /\ out[p].status = "returned")
            => /\ validateSemver(out[p].result.original)
               /\ validateSemver(out[p].result.version)

\* the part of C24 that the code does meet: a returned version taken from an
\* explicit token or from the calculator matches the grammar, and so do both
\* fields whenever the current version does
ResultsMatchGrammarOfCurrent ==
    \A p \in Procs :
        (pc[p] = "done" /\ out[p].status = "returned")
            => /\ (ExplicitCall(p) \/ IncrementCall(p))
                    => validateSemver(out[p].result.version)
               /\ validateSemver(out[p].result.original)
                    => validateSemver(out[p].result.version)

\* bump on a stored 1.2 has returned 1.2.undefined-rc.1
C24_MalformedReturned ==
    /\ pc[1] = "done"
    /\ TokenIs(1, S_bump)
    /\ out[1].status = "returned"
    /\ out[1].result =
         [original |-> V_1_2,
          version |-> <<"1", ".", "2", ".">> \o Fmt(Undefined) \o Hyphen \o RcDot \o <<"1">>]

----------------------------------------------------------------------------
(* Claims about a failing restore *)

\* C23: if the write that restores the snapshot fails during an increment
\* call, the call returns no result: it ends with the write error, thrown to
\* the caller or printed before exit 1, and never as a success
C23_RestoreFailureSurfaced ==
    \A p \in Procs :
        obs[p].restoreFailed =>
            /\ IncrementCall(p)
            /\ out[p].status # "returned"
            /\ out[p].result = NoResult
            /\ pc[p] = "done" =>
                  /\ out[p].status \in {"threw", "exited"}
                  /\ out[p].err = "WriteError"

\* the calculator succeeded, both restore writes threw, the call has thrown
\* the write error and the file still holds the calculator's version
C23_Witness ==
    /\ pc[1] = "done"
    /\ obs[1].calc = "ok"
    /\ obs[1].restoreFailed
    /\ ~obs[1].restored
    /\ out[1].status = "threw"
    /\ out[1].err = "WriteError"
    /\ record = obs[1].left
    /\ record # record0

\* the restore write of the try block threw, the one of the catch block
\* succeeded: the file is back and the call has exited with the write error
RestoreFailedThenRestored ==
    /\ pc[1] = "done"
    /\ obs[1].calc = "ok"
    /\ obs[1].restoreFailed
    /\ obs[1].restored
    /\ out[1].status = "exited"
    /\ out[1].err = "WriteError"
    /\ record = obs[1].start

----------------------------------------------------------------------------
(* Claims about repeated calls *)

\* both callers have finished a call with the same token and override
SameCallTwice ==
    /\ \A p \in Procs : pc[p] = "done"
    /\ args[1].input = args[2].input
    /\ args[1].overrideVersion = args[2].overrideVersion

\* C21: for a fixed record content and a deterministic calculator, any two
\* resolve calls with the same token and override, run one after the other
\* with any other non-overlapping calls in between, return the same
\* {original, version}
C21_RepeatedCallsAgree ==
    SameCallTwice =>
        /\ out[1].status = "returned" <=> out[2].status = "returned"
        /\ out[1].result = out[2].result

\* the part of C21 that the code does meet: two such calls that both return
\* return the same, and two such calls that found the same file content end
\* the same way
RepeatedCallsAgreeOnSameRecord ==
    SameCallTwice =>
        /\ (out[1].status = "returned" /\ out[2].status = "returned")
              => out[1].result = out[2].result
        /\ obs[1].start = obs[2].start => out[1] = out[2]

\* patch has returned 1.0.9 for a stored 1.0.8, and patch again, after a call
\* in between, has failed: the file has lost its version field
C21_RepeatFails ==
    /\ SameCallTwice
    /\ args[1].input = S_patch
    /\ args[1].overrideVersion = Null
    /\ out[1].status = "returned"
    /\ out[1].result = [original |-> V_1_0_8, version |-> <<"1", ".", "0", ".", "9">>]
    /\ obs[1].start = record0
    /\ out[2].status = "exited"
    /\ out[2].err = "NoVersion"
    /\ obs[2].start # record0
====
